---- MODULE Spec2Model ----
(***************************************************************************)
(* A model of sbfi, the Simple BrainFuck Interpreter V3.1 (src/sbfi.c,     *)
(* src/sbfi.h): the validator check_src, the normalizer strip_comments,    *)
(* the optimizer optim_code, the jump resolver match_brackets, the four    *)
(* bounds policies and the executor exec_prog.                             *)
(*                                                                         *)
(* C arrays are sequences; C index k is element k+1 (At, Put).  A char is  *)
(* its ASCII code, so that the code buffer can hold source characters,     *)
(* the optimizer's letters and the final bytecode, as it does in C.        *)
(*                                                                         *)
(* Undefined behaviour (an access outside an allocated array, a dispatch   *)
(* through a label address that is not in the table) ends a behaviour in   *)
(* the state pc = "undefined", with ub naming what happened: the model     *)
(* says nothing about what the build does after it.  The one exception is  *)
(* optim_code's write one element past coeff or mov, after which the run   *)
(* may also go on (ub keeps the record).                                   *)
(***************************************************************************)
EXTENDS Integers, Sequences, FiniteSets, TLC

VARIABLES
    pc,         \* position in main / exec_prog: the function or label to run next
    code,       \* char *code: the source buffer, rewritten in place; 0-terminated
    coeff,      \* int *coeff: xcalloc(strlen(code)) in optim_code
    mov,        \* int *mov (global): xcalloc(strlen(code)) in optim_code
    coeff_w,    \* ghost: the indices optim_code has written in coeff
    mov_w,      \* ghost: the indices optim_code has written in mov
    err,        \* the arguments of error(), << >> while none was raised
    ub,         \* the undefined behaviours the run has gone through, {} while none
    policy,     \* MEMORY_BEHAVIOR
    mem,        \* the cell array ptr0[0 .. array_size-1]
    ptr,        \* ptr - ptr0
    i,          \* exec_prog's instruction index
    buffer,     \* buffer[0 .. buffer_index-1], the pending output
    written,    \* the bytes handed to write(1, ...), in order
    out_hist,   \* ghost: the value of *ptr at each executed output label
    in_hist,    \* ghost: what getchar() returned, in order (EOF included)
    dispatched, \* ghost: the instruction indices exec_prog dispatched on
    premoves,   \* ghost: how many times MOVE_POINTER ran
    shift,      \* the displacement of the pending / last bounds request
    before,     \* ghost: the tape and pointer when that request was made
    src         \* ghost: the text main() was given

vars == << pc, code, coeff, mov, coeff_w, mov_w, err, ub, policy, mem, ptr, i,
           buffer, written, out_hist, in_hist, dispatched, premoves, shift, before, src >>

(***************************************************************************)
(* Characters and constants of the sources.                                *)
(***************************************************************************)
NUL == 0
CH_PLUS == 43
CH_COMMA == 44
CH_MINUS == 45
CH_DOT == 46
CH_LT == 60
CH_GT == 62
CH_LBRACKET == 91
CH_RBRACKET == 93
CH_SPACE == 32
CH_c == 99
CH_p == 112
CH_0 == 48
CH_s == 115
CH_m == 109
CH_COMMENT == 120

NONE == 0
EXTEND == 1
ABORT == 2
WRAP == 3
BLOCK == 4

EOF == -1
CELL_MODULUS == 256

\* the string "+-<>[],." of strip_comments
COMMANDS == << CH_PLUS, CH_MINUS, CH_LT, CH_GT, CH_LBRACKET, CH_RBRACKET, CH_COMMA, CH_DOT >>
\* the string "cp[]0sm.," of optim_code
BYTECODES == << CH_c, CH_p, CH_LBRACKET, CH_RBRACKET, CH_0, CH_s, CH_m, CH_DOT, CH_COMMA >>
\* the table of label addresses of exec_prog
instr == << "end", "changevalue", "movepointer", "leftbracket", "rightbracket",
            "zerocell", "seekzerocell", "movecell", "output", "input" >>

(***************************************************************************)
(* Bounds of the model.                                                    *)
(***************************************************************************)
MaxTextLen == 5          \* raw texts of the validator specification
MaxTokens == 4           \* programs of the executor specification, in tokens
INITIAL_ARRAY_SIZE == 2  \* the tape's initial length (30000 in the sources)
CHUNK_SIZE == 2          \* the output buffer's size (1024 in the sources)
MaxTapeLen == 4          \* exec_prog stops being followed beyond this tape length
MaxSteps == 8            \* ... and beyond this many dispatches
MaxPolicyTape == 3       \* tapes of the bounds-policy specification
MaxShift == 4            \* displacements of the bounds-policy specification

\* the undefined behaviours of the sources
UB_OPTIM == "optim_code writes coeff[k] or mov[k] outside the array"
UB_MOV == "MOVE_POINTER reads mov[i] outside the array"
UB_GOTO == "goto *(instr[code[i]]) outside the table"
UB_TAPE == "a cell outside ptr0[0 .. array_size-1] is read or written"

(***************************************************************************)
(* C arrays.                                                               *)
(***************************************************************************)
At(a, k) == a[k + 1]
Put(a, k, v) == [a EXCEPT ![k + 1] = v]
InArray(a, k) == k >= 0 /\ k < Len(a)
Zeros(n) == [k \in 1..n |-> 0]
Seqs(S, n) == UNION { [1..m -> S] : m \in 0..n }

RECURSIVE strlen_from(_, _)
strlen_from(s, k) == IF At(s, k) = NUL THEN k ELSE strlen_from(s, k + 1)
strlen(s) == strlen_from(s, 0)

\* strchr(str, c) != NULL; the terminator of str counts as one of its characters
strchr(str, c) == c = NUL \/ \E k \in 1..Len(str) : str[k] = c

(***************************************************************************)
(* check_src: the bracket counter of both scans, and the position each     *)
(* hands to error(ERROR_BRACKETS, i).                                      *)
(***************************************************************************)
bracket_delta(c) == IF c = CH_LBRACKET THEN 1 ELSE IF c = CH_RBRACKET THEN -1 ELSE 0

\* mutant of forward_scan: the loop is left before its ++i once n is negative
RECURSIVE forward_scan_break(_, _, _)
forward_scan_break(s, k, n) ==
    IF At(s, k) = NUL THEN [i |-> k, n |-> n]
    ELSE IF n + bracket_delta(At(s, k)) < 0
    THEN [i |-> k, n |-> n + bracket_delta(At(s, k))]
    ELSE forward_scan_break(s, k + 1, n + bracket_delta(At(s, k)))

\* for (i = 0, n = 0; n >= 0 && code[i]; ++i) n += ...
RECURSIVE forward_scan(_, _, _)
forward_scan(s, k, n) ==
    IF n >= 0 /\ At(s, k) # NUL
    THEN forward_scan(s, k + 1, n + bracket_delta(At(s, k)))
    ELSE [i |-> k, n |-> n]

\* for (n = 0; n <= 0; --i) n += ...
RECURSIVE backward_scan(_, _, _)
backward_scan(s, k, n) ==
    IF n <= 0
    THEN backward_scan(s, k - 1, n + bracket_delta(At(s, k)))
    ELSE [i |-> k, n |-> n]

\* << >> when check_src returns, the arguments of error() when it does not
check_src_result(s) ==
    LET f == forward_scan(s, 0, 0) IN
    IF f.n < 0 THEN << "ERROR_BRACKETS", f.i >>
    ELSE IF f.n > 0 THEN << "ERROR_BRACKETS", backward_scan(s, f.i, 0).i >>
    ELSE << >>

check_src ==
    /\ pc = "check_src"
    /\ err' = check_src_result(code)
    /\ pc' = IF err' = << >> THEN "strip_comments" ELSE "error"
    /\ UNCHANGED << code, coeff, mov, coeff_w, mov_w, ub, policy, mem, ptr, i, buffer,
                    written, out_hist, in_hist, dispatched, premoves, shift, before, src >>

(***************************************************************************)
(* strip_comments: in place, the tail of the buffer keeps its old bytes.   *)
(***************************************************************************)
RECURSIVE strip_loop(_, _, _)
strip_loop(s, k, j) ==
    IF At(s, k) = NUL THEN Put(s, j, NUL)
    ELSE IF strchr(COMMANDS, At(s, k))
         THEN strip_loop(Put(s, j, At(s, k)), k + 1, j + 1)
         ELSE strip_loop(s, k + 1, j)

strip_comments ==
    /\ pc = "strip_comments"
    /\ code' = strip_loop(code, 0, 0)
    /\ pc' = "optim_code"
    /\ UNCHANGED << coeff, mov, coeff_w, mov_w, err, ub, policy, mem, ptr, i, buffer,
                    written, out_hist, in_hist, dispatched, premoves, shift, before, src >>

(***************************************************************************)
(* optim_code.  o is the compile context: the code buffer and the two int  *)
(* arrays, with the indices written so far.  A write at an index outside   *)
(* the allocation is recorded in cw / mw and stores nothing in the model.  *)
(***************************************************************************)
WrCoeff(o, k, v) ==
    [o EXCEPT !.coeff = IF InArray(@, k) THEN Put(@, k, v) ELSE @, !.cw = @ \cup {k}]
WrMov(o, k, v) ==
    [o EXCEPT !.mov = IF InArray(@, k) THEN Put(@, k, v) ELSE @, !.mw = @ \cup {k}]
WrCode(o, k, v) == [o EXCEPT !.code = Put(@, k, v)]

\* int *coeff = xcalloc(strlen(code), sizeof(int)); mov = xcalloc(...)
optim_alloc(s) ==
    [code |-> s, coeff |-> Zeros(strlen(s)), mov |-> Zeros(strlen(s)), cw |-> {}, mw |-> {}]

\* the first loop: +/- become c, </> become p, coeff is the direction
RECURSIVE sign_fold(_, _)
sign_fold(o, k) ==
    LET c == At(o.code, k) IN
    IF c = NUL THEN o
    ELSE LET o1 == WrCoeff(o, k, IF c = CH_MINUS \/ c = CH_LT THEN -1 ELSE 1)
             o2 == IF c = CH_PLUS \/ c = CH_MINUS THEN WrCode(o1, k, CH_c)
                   ELSE IF c = CH_LT \/ c = CH_GT THEN WrCode(o1, k, CH_p)
                   ELSE o1
         IN  sign_fold(o2, k + 1)

\* for (; code[j] == code[i]; coeff[j] += coeff[i++]);
RECURSIVE run_merge(_, _, _)
run_merge(o, k, j) ==
    IF At(o.code, j) = At(o.code, k)
    THEN run_merge(WrCoeff(o, j, At(o.coeff, j) + At(o.coeff, k)), k + 1, j)
    ELSE [o |-> o, i |-> k]

\* the second loop: runs of c and of p collapse into one slot
RECURSIVE run_length(_, _, _)
run_length(o, k, j) ==
    IF At(o.code, k) = NUL THEN WrCode(o, j, NUL)
    ELSE LET o1 == WrCoeff(WrCode(o, j, At(o.code, k)), j, At(o.coeff, k))
             r  == IF strchr(<< CH_c, CH_p >>, At(o1.code, k + 1))
                   THEN run_merge(o1, k + 1, j)
                   ELSE [o |-> o1, i |-> k + 1]
         IN  run_length(r.o, r.i, j + 1)

\* for (i = 0; i < strlen(pattern) && codeptr[i] == pattern[i]; ++i);
RECURSIVE match_loop(_, _, _, _)
match_loop(s, base, pattern, k) ==
    IF k < Len(pattern) /\ At(s, base + k) = At(pattern, k)
    THEN match_loop(s, base, pattern, k + 1)
    ELSE k
match_pattern(s, base, pattern) == match_loop(s, base, pattern, 0) = Len(pattern)

PAT_ZERO == << CH_LBRACKET, CH_c, CH_RBRACKET >>
PAT_SEEK == << CH_LBRACKET, CH_p, CH_RBRACKET >>
PAT_MOVE == << CH_LBRACKET, CH_c, CH_p, CH_c, CH_p, CH_RBRACKET >>
PAT_P == << CH_p >>

RECURSIVE blank(_, _, _)
blank(o, from, to) == IF from > to THEN o ELSE blank(WrCode(o, from, CH_SPACE), from + 1, to)

\* one iteration of the third loop, at slot k
peephole_at(o, k) ==
    IF match_pattern(o.code, k, PAT_ZERO) /\ At(o.coeff, k + 1) = -1
    THEN blank(WrCode(o, k, CH_0), k + 1, k + 2)
    ELSE IF match_pattern(o.code, k, PAT_SEEK)
    THEN WrCoeff(blank(WrCode(o, k, CH_s), k + 1, k + 2), k, At(o.coeff, k + 1))
    ELSE IF /\ match_pattern(o.code, k, PAT_MOVE)
            /\ At(o.coeff, k + 1) = -1
            /\ At(o.coeff, k + 3) = 1
            /\ At(o.coeff, k + 2) = -At(o.coeff, k + 4)
    THEN WrCoeff(blank(WrCode(o, k, CH_m), k + 1, k + 5), k, At(o.coeff, k + 2))
    ELSE IF match_pattern(o.code, k, PAT_P)
    THEN LET at == IF InArray(o.mov, k + 1) THEN At(o.mov, k + 1) ELSE 0
         IN  WrMov(WrCode(o, k, CH_SPACE), k + 1, at + At(o.coeff, k))
    ELSE o

RECURSIVE peephole(_, _)
peephole(o, k) == IF At(o.code, k) = NUL THEN o ELSE peephole(peephole_at(o, k), k + 1)

\* the fourth loop: the spaces go, the three arrays stay aligned;
\* then code[j] = '\0'; coeff[j] = 0;
RECURSIVE compact(_, _, _)
compact(o, k, j) ==
    IF At(o.code, k) = NUL THEN WrCoeff(WrCode(o, j, NUL), j, 0)
    ELSE IF At(o.code, k) # CH_SPACE
    THEN compact(WrMov(WrCoeff(WrCode(o, j, At(o.code, k)), j, At(o.coeff, k)),
                       j, At(o.mov, k)), k + 1, j + 1)
    ELSE compact(o, k + 1, j)

\* strchr("cp[]0sm.,", c) - "cp[]0sm.," + 1
bytecode_of(c) == CHOOSE k \in 1..Len(BYTECODES) : BYTECODES[k] = c

RECURSIVE encode(_, _)
encode(o, k) ==
    IF At(o.code, k) = NUL THEN o
    ELSE encode(WrCode(o, k, bytecode_of(At(o.code, k))), k + 1)

optim_stage1(s) == run_length(sign_fold(optim_alloc(s), 0), 0, 0)
optim_result(s) == encode(compact(peephole(optim_stage1(s), 0), 0, 0), 0)

\* the writes of o that fall outside the xcalloc'ed arrays
out_of_bounds(o) ==
    \/ \E k \in o.cw : ~InArray(o.coeff, k)
    \/ \E k \in o.mw : ~InArray(o.mov, k)

\* xcalloc(0, ...): calloc may give NULL for no elements, and xcalloc then
\* calls error(ERROR_ALLOC)
calloc_results(n) == IF n = 0 THEN {"NULL", "block"} ELSE {"block"}

optim_code ==
    /\ pc = "optim_code"
    /\ \E got \in calloc_results(strlen(code)) : \E o \in {optim_result(code)} :
       IF got = "NULL"
       THEN /\ err' = << "ERROR_ALLOC" >>
            /\ pc' = "error"
            /\ UNCHANGED << code, coeff, mov, coeff_w, mov_w, ub >>
       ELSE /\ code' = o.code
            /\ coeff' = o.coeff
            /\ mov' = o.mov
            /\ coeff_w' = o.cw
            /\ mov_w' = o.mw
            /\ ub' = IF out_of_bounds(o) THEN ub \cup {UB_OPTIM} ELSE ub
            \* a write past the end of a heap block: the build may break on it, or
            \* the write may fall in the allocator's slack and the run go on
            /\ pc' \in IF out_of_bounds(o) THEN {"undefined", "match_brackets"}
                       ELSE {"match_brackets"}
            /\ err' = err
    /\ UNCHANGED << policy, mem, ptr, i, buffer, written, out_hist, in_hist,
                    dispatched, premoves, shift, before, src >>

(***************************************************************************)
(* match_brackets(code, coeff, left): the coeff array after the call and   *)
(* the value returned.                                                     *)
(***************************************************************************)
\* mutant of match_brackets_from: coeff[i] = i - left
RECURSIVE match_brackets_from_same_sign(_, _, _, _)
match_brackets_from_same_sign(s, cf, left, k) ==
    IF At(s, k) = NUL THEN [coeff |-> cf, ret |-> 0]
    ELSE IF At(s, k) = 3
    THEN LET r == match_brackets_from_same_sign(s, cf, k, k + 1)
         IN  match_brackets_from_same_sign(s, r.coeff, left, r.ret + 1)
    ELSE IF At(s, k) = 4
    THEN [coeff |-> Put(Put(cf, left, k - left), k, k - left), ret |-> k]
    ELSE match_brackets_from_same_sign(s, cf, left, k + 1)

RECURSIVE match_brackets_from(_, _, _, _)
match_brackets_from(s, cf, left, k) ==
    IF At(s, k) = NUL THEN [coeff |-> cf, ret |-> 0]
    ELSE IF At(s, k) = 3
    THEN LET r == match_brackets_from(s, cf, k, k + 1)
         IN  match_brackets_from(s, r.coeff, left, r.ret + 1)
    ELSE IF At(s, k) = 4
    THEN [coeff |-> Put(Put(cf, left, k - left), k, left - k), ret |-> k]
    ELSE match_brackets_from(s, cf, left, k + 1)

match_brackets_result(s, cf, left) == match_brackets_from(s, cf, left, left + 1)

match_brackets ==
    /\ pc = "match_brackets"
    /\ coeff' = match_brackets_result(code, coeff, -1).coeff
    /\ pc' = "exec_prog"
    /\ UNCHANGED << code, mov, coeff_w, mov_w, err, ub, policy, mem, ptr, i, buffer,
                    written, out_hist, in_hist, dispatched, premoves, shift, before, src >>

(***************************************************************************)
(* The bounds policies.  Each takes the tape m (its length is *size), the  *)
(* pointer p = *ptr - *ptr0 and the displacement s, and gives the tape and *)
(* pointer it leaves, or the arguments of error().  The pointer            *)
(* comparisons are those of the addresses.                                 *)
(***************************************************************************)
INDETERMINATE == -1     \* a cell realloc() added and nothing has written yet

Moved(m, p) == [mem |-> m, ptr |-> p, st |-> "ok", err |-> << >>]

\* xrealloc(*ptr0, (*size + 1) * sizeof(CELL)): the cells 0 .. size-1 of the new block
realloc_cells(m, size) ==
    [k \in 1..size |-> IF k <= Len(m) THEN m[k] ELSE INDETERMINATE]

\* memset(*ptr0 + from, 0, n)
memset_zero(m, from, n) ==
    [k \in 1..Len(m) |-> IF k - 1 >= from /\ k - 1 < from + n THEN 0 ELSE m[k]]

\* mutant of shift_cells: the copy runs from 0 up to old_size
RECURSIVE shift_cells_up(_, _, _, _)
shift_cells_up(m, j, k, d) ==
    IF j > k THEN m
    ELSE shift_cells_up(IF InArray(m, j + d) THEN Put(m, j + d, At(m, j)) ELSE m, j + 1, k, d)
shift_cells_ascending(m, k, d) == shift_cells_up(m, 0, k, d)

\* for (i = old_size; i >= 0; --i) (*ptr0)[i + *size - old_size] = (*ptr0)[i];
\* slot *size is the spare cell of the block, which is no cell of the tape
RECURSIVE shift_cells(_, _, _)
shift_cells(m, k, d) ==
    IF k < 0 THEN m
    ELSE shift_cells(IF InArray(m, k + d) THEN Put(m, k + d, At(m, k)) ELSE m, k - 1, d)

extend_memory(m, p, s) ==
    IF p + s >= Len(m)
    THEN LET old_size == Len(m)
             size == p + s + 1
             p1 == size - s - 1
         IN  Moved(memset_zero(realloc_cells(m, size), old_size, size - old_size), p1 + s)
    ELSE IF p + s < 0
    THEN LET old_size == Len(m)
             size == Len(m) + (0 - (p + s))
             p1 == 0 - s
         IN  Moved(memset_zero(shift_cells(realloc_cells(m, size), old_size, size - old_size),
                               0, size - old_size), p1 + s)
    ELSE Moved(m, p + s)

abort_memory(m, p, s) ==
    IF p + s >= Len(m) \/ p + s < 0
    THEN [mem |-> m, ptr |-> p, st |-> "error", err |-> << "ERROR_MEMORY", p + s, Len(m) - 1 >>]
    ELSE Moved(m, p + s)

\* mutant of wrap_memory: > for >=
wrap_memory_gt(m, p, s) ==
    Moved(m, p + s + (IF p + s > Len(m) THEN -Len(m) ELSE IF p + s < 0 THEN Len(m) ELSE 0))

wrap_memory(m, p, s) ==
    Moved(m, p + s + (IF p + s >= Len(m) THEN -Len(m) ELSE IF p + s < 0 THEN Len(m) ELSE 0))

block_memory(m, p, s) ==
    Moved(m, IF p + s >= Len(m) THEN Len(m) - 1 ELSE IF p + s < 0 THEN 0 ELSE p + s)

\* what MOVE_POINTER does to the pointer, by MEMORY_BEHAVIOR
bounds_move(b, m, p, s) ==
    IF b = EXTEND THEN extend_memory(m, p, s)
    ELSE IF b = ABORT THEN abort_memory(m, p, s)
    ELSE IF b = WRAP THEN wrap_memory(m, p, s)
    ELSE IF b = BLOCK THEN block_memory(m, p, s)
    ELSE Moved(m, p + s)

(***************************************************************************)
(* exec_prog.  x is the executor's running state inside one label: the     *)
(* index, the pointer, the tape, how the step ends (st) and the count of   *)
(* MOVE_POINTERs.                                                          *)
(***************************************************************************)
InputBytes == {0, 1, 255}
Policies == {NONE, EXTEND, ABORT, WRAP, BLOCK}

Undefined(x, what) == [x EXCEPT !.st = "undefined", !.ub = @ \cup {what}]
InTape(m, p) == p >= 0 /\ p < Len(m)
Cell(v) == v % CELL_MODULUS

\* MOVE_POINTER: <policy>(..., mov[++i]);
MOVE_POINTER(b, x) ==
    IF x.st # "ok" THEN x
    ELSE IF ~InArray(mov, x.i + 1)
    THEN Undefined([x EXCEPT !.i = @ + 1], UB_MOV)
    ELSE LET r == bounds_move(b, x.mem, x.ptr, At(mov, x.i + 1))
         IN  [x EXCEPT !.i = @ + 1, !.mem = r.mem, !.ptr = r.ptr, !.st = r.st,
                       !.err = r.err, !.pm = @ + 1]

\* NEXT_INSTRUCTION: MOVE_POINTER goto *(instr[(int)code[i]]);
NEXT_INSTRUCTION(b, x) ==
    LET y == MOVE_POINTER(b, x) IN
    IF y.st # "ok" THEN y
    ELSE IF At(code, y.i) < 0 \/ At(code, y.i) >= Len(instr)
    THEN Undefined(y, UB_GOTO)
    ELSE y

\* the end of every label but end: MOVE_POINTER NEXT_INSTRUCTION
\* (the singleton sets only name the intermediate values)
Jump(b, x) ==
    \E x0 \in {x} : \E x1 \in {MOVE_POINTER(b, x0)} : \E y \in {NEXT_INSTRUCTION(b, x1)} :
    /\ i' = y.i
    /\ ptr' = y.ptr
    /\ mem' = y.mem
    /\ err' = y.err
    /\ ub' = y.ub
    /\ premoves' = y.pm
    /\ pc' = IF y.st = "ok" THEN At(instr, At(code, y.i)) ELSE y.st
    /\ dispatched' = IF y.st = "ok" THEN Append(dispatched, y.i) ELSE dispatched

Running(m, p, k) ==
    [i |-> k, ptr |-> p, mem |-> m, st |-> "ok", err |-> << >>, ub |-> ub, pm |-> premoves]

\* the model follows a run while its ghost history and its tape are within bounds
Followed == Len(dispatched) < MaxSteps /\ Len(mem) <= MaxTapeLen

\* MEMORY_BEHAVIOR is fixed when the interpreter is built; nothing before
\* exec_prog reads it, so the model fixes it on entry
exec_prog ==
    /\ pc = "exec_prog"
    /\ \E b \in Policies :
        /\ policy' = b
        /\ Jump(b, Running(Zeros(INITIAL_ARRAY_SIZE), 0, -1))
    /\ buffer' = << >>
    /\ UNCHANGED << code, coeff, mov, coeff_w, mov_w, written, out_hist, in_hist,
                    shift, before, src >>

changevalue ==
    /\ pc = "changevalue" /\ Followed
    /\ policy' = policy
    /\ Jump(policy, IF InTape(mem, ptr)
            THEN Running(Put(mem, ptr, Cell(At(mem, ptr) + At(coeff, i))), ptr, i)
            ELSE Undefined(Running(mem, ptr, i), UB_TAPE))
    /\ UNCHANGED << code, coeff, mov, coeff_w, mov_w, buffer, written, out_hist,
                    in_hist, shift, before, src >>

\* movepointer falls through into leftbracket / rightbracket
bracket_step(m, p, k) ==
    LET c == At(coeff, k) IN
    IF c # 0 /\ ~InTape(m, p)
    THEN Undefined(Running(m, p, k), UB_TAPE)
    ELSE Running(m, p,
                 IF (c > 0 /\ At(m, p) = 0) \/ (c < 0 /\ At(m, p) # 0) THEN k + c ELSE k)

movepointer_leftbracket_rightbracket ==
    /\ pc \in {"movepointer", "leftbracket", "rightbracket"} /\ Followed
    /\ policy' = policy
    /\ Jump(policy, bracket_step(mem, IF pc = "movepointer" THEN ptr + At(coeff, i) ELSE ptr, i))
    /\ UNCHANGED << code, coeff, mov, coeff_w, mov_w, buffer, written, out_hist,
                    in_hist, shift, before, src >>

zerocell ==
    /\ pc = "zerocell" /\ Followed
    /\ policy' = policy
    /\ Jump(policy, IF InTape(mem, ptr)
            THEN Running(Put(mem, ptr, 0), ptr, i)
            ELSE Undefined(Running(mem, ptr, i), UB_TAPE))
    /\ UNCHANGED << code, coeff, mov, coeff_w, mov_w, buffer, written, out_hist,
                    in_hist, shift, before, src >>

\* for (; *ptr; ptr += coeff[i]);  "hang" when the loop cannot end
RECURSIVE seek(_, _, _)
seek(m, p, k) ==
    IF ~InTape(m, p) THEN [ptr |-> p, st |-> "undefined"]
    ELSE IF At(m, p) = 0 THEN [ptr |-> p, st |-> "ok"]
    ELSE IF k = 0 THEN [ptr |-> p, st |-> "hang"]
    ELSE seek(m, p + k, k)

seekzerocell ==
    /\ pc = "seekzerocell" /\ Followed
    /\ policy' = policy
    /\ LET r == seek(mem, ptr, At(coeff, i)) IN
       IF r.st = "hang"
       THEN UNCHANGED << pc, i, ptr, mem, err, ub, premoves, dispatched >>
       ELSE Jump(policy, IF r.st = "ok"
                 THEN Running(mem, r.ptr, i)
                 ELSE Undefined(Running(mem, r.ptr, i), UB_TAPE))
    /\ UNCHANGED << code, coeff, mov, coeff_w, mov_w, buffer, written, out_hist,
                    in_hist, shift, before, src >>

\* *(ptr + coeff[i]) += *ptr; *ptr = 0;
movecell ==
    /\ pc = "movecell" /\ Followed
    /\ policy' = policy
    /\ Jump(policy, IF InTape(mem, ptr) /\ InTape(mem, ptr + At(coeff, i))
            THEN Running(Put(Put(mem, ptr + At(coeff, i),
                                 Cell(At(mem, ptr + At(coeff, i)) + At(mem, ptr))),
                             ptr, 0), ptr, i)
            ELSE Undefined(Running(mem, ptr, i), UB_TAPE))
    /\ UNCHANGED << code, coeff, mov, coeff_w, mov_w, buffer, written, out_hist,
                    in_hist, shift, before, src >>

\* mutant of PRINT_BUFFER: buffer_index = 0 without the write
PRINT_BUFFER_no_write(w, buf, size) == [written |-> w, buffer |-> << >>]

\* PRINT_BUFFER(size): { write(1, &buffer, size); buffer_index = 0; }
PRINT_BUFFER(w, buf, size) == [written |-> w \o SubSeq(buf, 1, size), buffer |-> << >>]

\* buffer[buffer_index++] = *ptr; if (buffer_index == CHUNK_SIZE) PRINT_BUFFER(CHUNK_SIZE)
output_result(w, buf, v) ==
    LET b1 == Append(buf, v) IN
    IF Len(b1) = CHUNK_SIZE THEN PRINT_BUFFER(w, b1, CHUNK_SIZE)
    ELSE [written |-> w, buffer |-> b1]

output ==
    /\ pc = "output" /\ Followed
    /\ policy' = policy
    /\ IF InTape(mem, ptr)
       THEN LET r == output_result(written, buffer, At(mem, ptr)) IN
            /\ out_hist' = Append(out_hist, At(mem, ptr))
            /\ written' = r.written
            /\ buffer' = r.buffer
            /\ Jump(policy, Running(mem, ptr, i))
       ELSE /\ UNCHANGED << out_hist, written, buffer >>
            /\ Jump(policy, Undefined(Running(mem, ptr, i), UB_TAPE))
    /\ UNCHANGED << code, coeff, mov, coeff_w, mov_w, in_hist, shift, before, src >>

\* PRINT_BUFFER(buffer_index), up to the call of getchar()
input ==
    /\ pc = "input" /\ Followed
    /\ written' = PRINT_BUFFER(written, buffer, Len(buffer)).written
    /\ buffer' = PRINT_BUFFER(written, buffer, Len(buffer)).buffer
    /\ pc' = "getchar"
    /\ UNCHANGED << code, coeff, mov, coeff_w, mov_w, err, ub, policy, mem, ptr, i,
                    out_hist, in_hist, dispatched, premoves, shift, before, src >>

\* if ((tmp = getchar()) != EOF) *ptr = tmp;   (EOF_INPUT_BEHAVIOR is NO_CHANGE)
getchar ==
    /\ pc = "getchar"
    /\ policy' = policy
    /\ \E tmp \in InputBytes \cup {EOF} :
        /\ in_hist' = Append(in_hist, tmp)
        /\ Jump(policy, IF tmp = EOF THEN Running(mem, ptr, i)
                ELSE IF InTape(mem, ptr) THEN Running(Put(mem, ptr, tmp), ptr, i)
                ELSE Undefined(Running(mem, ptr, i), UB_TAPE))
    /\ UNCHANGED << code, coeff, mov, coeff_w, mov_w, buffer, written, out_hist,
                    shift, before, src >>

\* PRINT_BUFFER(buffer_index) free(ptr0);
end ==
    /\ pc = "end"
    /\ written' = PRINT_BUFFER(written, buffer, Len(buffer)).written
    /\ buffer' = PRINT_BUFFER(written, buffer, Len(buffer)).buffer
    /\ pc' = "halted"
    /\ UNCHANGED << code, coeff, mov, coeff_w, mov_w, err, ub, policy, mem, ptr, i,
                    out_hist, in_hist, dispatched, premoves, shift, before, src >>

(***************************************************************************)
(* Specifications.                                                         *)
(***************************************************************************)
Text(s) == s \o << NUL >>

Idle ==
    /\ coeff = << >> /\ mov = << >> /\ coeff_w = {} /\ mov_w = {}
    /\ err = << >> /\ ub = {} /\ policy = NONE
    /\ mem = << >> /\ ptr = 0 /\ i = -1
    /\ buffer = << >> /\ written = << >> /\ out_hist = << >> /\ in_hist = << >>
    /\ dispatched = << >> /\ premoves = 0 /\ shift = 0
    /\ before = [mem |-> << >>, ptr |-> 0]

\* the interpreter, from main's call of check_src on: the programs are the
\* texts of up to MaxTokens tokens, a token being a command or one of the
\* two six-character loops that optim_code turns into a movecell
Tokens ==
    { << COMMANDS[k] >> : k \in 1..Len(COMMANDS) } \cup
    { << CH_LBRACKET, CH_MINUS, CH_GT, CH_PLUS, CH_LT, CH_RBRACKET >>,
      << CH_LBRACKET, CH_MINUS, CH_LT, CH_PLUS, CH_GT, CH_RBRACKET >> }

RECURSIVE Flatten(_)
Flatten(ts) == IF ts = << >> THEN << >> ELSE Head(ts) \o Flatten(Tail(ts))

Programs == { Flatten(ts) : ts \in Seqs(Tokens, MaxTokens) }

Init ==
    /\ pc = "check_src"
    /\ code \in { Text(s) : s \in Programs }
    /\ src = code
    /\ Idle

Next ==
    \/ check_src
    \/ strip_comments
    \/ optim_code
    \/ match_brackets
    \/ exec_prog
    \/ changevalue
    \/ movepointer_leftbracket_rightbracket
    \/ zerocell
    \/ seekzerocell
    \/ movecell
    \/ output
    \/ input
    \/ getchar
    \/ end

Spec == Init /\ [][Next]_vars

\* the validator and the normalizer on raw texts, comments included
TextChars == {CH_LBRACKET, CH_RBRACKET, CH_PLUS, CH_COMMENT}

InitCheck ==
    /\ pc = "check_src"
    /\ code \in { Text(s) : s \in Seqs(TextChars, MaxTextLen) }
    /\ src = code
    /\ Idle

NextCheck ==
    \/ check_src
    \/ strip_comments

SpecCheck == InitCheck /\ [][NextCheck]_vars

\* the bounds policies on their own: a tape, a pointer on it and a first
\* displacement, then one policy function per request
PolicyCells == {0, 7}

InitPolicy ==
    /\ pc = "request"
    /\ policy \in {EXTEND, ABORT, WRAP, BLOCK}
    /\ mem \in Seqs(PolicyCells, MaxPolicyTape) \ {<< >>}
    /\ ptr \in 0..(Len(mem) - 1)
    /\ shift \in (-MaxShift)..MaxShift
    /\ before = [mem |-> mem, ptr |-> ptr]
    /\ code = << NUL >> /\ src = code
    /\ coeff = << >> /\ mov = << >> /\ coeff_w = {} /\ mov_w = {}
    /\ err = << >> /\ ub = {} /\ i = -1
    /\ buffer = << >> /\ written = << >> /\ out_hist = << >> /\ in_hist = << >>
    /\ dispatched = << >> /\ premoves = 0

Request(r) ==
    /\ mem' = r.mem
    /\ ptr' = r.ptr
    /\ err' = r.err
    /\ pc' = IF r.st = "ok" THEN "moved" ELSE "error"
    /\ UNCHANGED << code, coeff, mov, coeff_w, mov_w, ub, policy, i, buffer, written,
                    out_hist, in_hist, dispatched, premoves, shift, before, src >>

call_extend_memory == pc = "request" /\ policy = EXTEND /\ Request(extend_memory(mem, ptr, shift))
call_abort_memory == pc = "request" /\ policy = ABORT /\ Request(abort_memory(mem, ptr, shift))
call_wrap_memory == pc = "request" /\ policy = WRAP /\ Request(wrap_memory(mem, ptr, shift))
call_block_memory == pc = "request" /\ policy = BLOCK /\ Request(block_memory(mem, ptr, shift))

next_request ==
    /\ pc = "moved" /\ Len(mem) <= MaxPolicyTape /\ InTape(mem, ptr)
    /\ \E s \in (-MaxShift)..MaxShift : shift' = s
    /\ before' = [mem |-> mem, ptr |-> ptr]
    /\ pc' = "request"
    /\ UNCHANGED << code, coeff, mov, coeff_w, mov_w, err, ub, policy, mem, ptr, i, buffer,
                    written, out_hist, in_hist, dispatched, premoves, src >>

NextPolicy ==
    \/ call_extend_memory
    \/ call_abort_memory
    \/ call_wrap_memory
    \/ call_block_memory
    \/ next_request

SpecPolicy == InitPolicy /\ [][NextPolicy]_vars

(***************************************************************************)
(* The reference the claims compare the code with: the depth of a text,    *)
(* the nesting of a compiled stream, and the command-by-command run of a   *)
(* source text.                                                            *)
(***************************************************************************)
NaiveFuel == 40      \* commands a reference run is followed for

\* the number of [ minus the number of ] among the characters from .. to-1 of s
RECURSIVE Depth(_, _, _)
Depth(s, from, to) ==
    IF from >= to THEN 0 ELSE bracket_delta(At(s, from)) + Depth(s, from + 1, to)

GoesNegative(s) == \E k \in 0..(strlen(s) - 1) : Depth(s, 0, k + 1) < 0
FirstNegative(s) ==
    CHOOSE k \in 0..(strlen(s) - 1) :
        /\ Depth(s, 0, k + 1) < 0
        /\ \A j \in 0..(k - 1) : Depth(s, 0, j + 1) >= 0

StaysOpen(s) == ~GoesNegative(s) /\ Depth(s, 0, strlen(s)) > 0
\* scanning from the end, the [ at which the count first becomes positive
FirstExcessOpen(s) ==
    CHOOSE k \in 0..(strlen(s) - 1) :
        /\ Depth(s, k, strlen(s)) > 0
        /\ \A j \in (k + 1)..(strlen(s) - 1) : Depth(s, j, strlen(s)) <= 0

\* in a compiled stream (3 is [, 4 is ]) the ] that closes the [ at p
StreamDelta(c) == IF c = 3 THEN 1 ELSE IF c = 4 THEN -1 ELSE 0
RECURSIVE StreamDepth(_, _, _)
StreamDepth(s, from, to) ==
    IF from > to THEN 0 ELSE StreamDelta(At(s, from)) + StreamDepth(s, from + 1, to)
HasNestedMatch(s, p) == \E q \in (p + 1)..(strlen(s) - 1) : StreamDepth(s, p, q) = 0
NestedMatch(s, p) ==
    CHOOSE q \in (p + 1)..(strlen(s) - 1) :
        /\ StreamDepth(s, p, q) = 0
        /\ \A r \in (p + 1)..(q - 1) : StreamDepth(s, p, r) # 0

\* the bracket of the source text s that pairs with the one at k
SourceClose(s, k) ==
    CHOOSE q \in (k + 1)..(strlen(s) - 1) :
        /\ Depth(s, k, q + 1) = 0
        /\ \A r \in (k + 1)..(q - 1) : Depth(s, k, r + 1) # 0
SourceOpen(s, k) ==
    CHOOSE q \in 0..(k - 1) :
        /\ Depth(s, q, k + 1) = 0
        /\ \A r \in (q + 1)..(k - 1) : Depth(s, r, k + 1) # 0

\* one command of the source text s under policy b, on input inp
NaiveStep(b, s, inp, n) ==
    LET c == At(s, n.ip)
        go == [n EXCEPT !.ip = @ + 1]
        cell == At(n.mem, n.ptr)
    IN  IF c = NUL THEN [n EXCEPT !.end = "halted"]
        ELSE IF c = CH_GT \/ c = CH_LT
        THEN LET r == bounds_move(b, n.mem, n.ptr, IF c = CH_GT THEN 1 ELSE -1)
             IN  IF r.st = "ok" THEN [go EXCEPT !.mem = r.mem, !.ptr = r.ptr]
                 ELSE [n EXCEPT !.end = "error"]
        ELSE IF ~strchr(COMMANDS, c) THEN go
        ELSE IF ~InTape(n.mem, n.ptr) THEN [n EXCEPT !.end = "undefined"]
        ELSE IF c = CH_PLUS THEN [go EXCEPT !.mem = Put(@, n.ptr, Cell(cell + 1))]
        ELSE IF c = CH_MINUS THEN [go EXCEPT !.mem = Put(@, n.ptr, Cell(cell - 1))]
        ELSE IF c = CH_DOT THEN [go EXCEPT !.out = Append(@, cell)]
        ELSE IF c = CH_COMMA
        THEN IF n.used >= Len(inp) THEN [n EXCEPT !.end = "starved"]
             ELSE IF inp[n.used + 1] = EOF THEN [go EXCEPT !.used = @ + 1]
             ELSE [go EXCEPT !.used = @ + 1, !.mem = Put(@, n.ptr, inp[n.used + 1])]
        ELSE IF c = CH_LBRACKET
        THEN IF cell = 0 THEN [n EXCEPT !.ip = SourceClose(s, n.ip) + 1] ELSE go
        ELSE IF cell # 0 THEN [n EXCEPT !.ip = SourceOpen(s, n.ip) + 1] ELSE go

RECURSIVE NaiveRun(_, _, _, _, _)
NaiveRun(b, s, inp, n, fuel) ==
    IF n.end # "running" THEN n
    ELSE IF fuel = 0 THEN [n EXCEPT !.end = "fuel"]
    ELSE NaiveRun(b, s, inp, NaiveStep(b, s, inp, n), fuel - 1)

Naive(b, s, inp) ==
    NaiveRun(b, s, inp,
             [ip |-> 0, mem |-> Zeros(INITIAL_ARRAY_SIZE), ptr |-> 0, out |-> << >>,
              used |-> 0, end |-> "running"], NaiveFuel)

CheckedPolicies == {EXTEND, ABORT, WRAP, BLOCK}

(***************************************************************************)
(* The claims.                                                             *)
(***************************************************************************)

\* C1: a run of the optimized stream that halts with no undefined behaviour
\* has written the bytes, and leaves the tape, of the command-by-command run
\* of the same text under the same policy on the same input.
C1_OptimizedRunEqualsNaiveRun ==
    (pc = "halted" /\ ub = {}) =>
        \A n \in {Naive(policy, src, in_hist)} :
            (n.end = "halted" /\ n.used = Len(in_hist)) =>
                /\ written = n.out
                /\ Len(mem) = Len(n.mem) => mem = n.mem

\* C2: the executor dispatches first on instruction 0, and has run
\* MOVE_POINTER once for each instruction it has dispatched on.
C2_StartsAtZeroOnePreMoveEach ==
    (dispatched # << >> /\ ub \subseteq {UB_TAPE}) =>
        /\ dispatched[1] = 0
        /\ premoves = Len(dispatched)

\* C3: under Extend, Abort, Wrap or Block the executor reads and writes no
\* cell outside [0, length) (in a run with no other undefined behaviour).
C3_NoCellOutsideTheTape ==
    (policy \in CheckedPolicies /\ ub \subseteq {UB_TAPE}) => UB_TAPE \notin ub

\* C4 as stated: when the depth first goes negative at index k of the text,
\* check_src fails reporting k.
C4_ReportsIndexOfClosingBracket ==
    (pc # "check_src" /\ GoesNegative(src)) =>
        /\ pc = "error"
        /\ err = << "ERROR_BRACKETS", FirstNegative(src) >>

\* C4 as amended: when the depth first goes negative at index k of the text,
\* check_src fails reporting k + 1, the bracket's position counted from 1.
C4_ReportsPositionFromOne ==
    (pc # "check_src" /\ GoesNegative(src)) =>
        /\ pc = "error"
        /\ err = << "ERROR_BRACKETS", FirstNegative(src) + 1 >>

C4_Witness ==
    /\ pc = "error"
    /\ GoesNegative(src)
    /\ FirstNegative(src) >= 2
    /\ err = << "ERROR_BRACKETS", FirstNegative(src) + 1 >>

\* C5: when the forward pass ends with a positive depth, check_src fails
\* reporting the position of the [ at which the count, taken from the end
\* of the text, first becomes positive (its index, or counted from 1 as in
\* "[[" reported at 2).
C5_ReportsPositionOfExcessOpen ==
    (pc # "check_src" /\ StaysOpen(src)) =>
        /\ pc = "error"
        /\ \/ err = << "ERROR_BRACKETS", FirstExcessOpen(src) >>
           \/ err = << "ERROR_BRACKETS", FirstExcessOpen(src) + 1 >>

\* C6: after optim_code and match_brackets(code, coeff, -1), every [ of the
\* stream holds the positive distance to the ] that closes it by nesting,
\* that ] holds the same distance negated, and every ] is the target of
\* exactly one [.
C6_BracketsResolved ==
    pc = "exec_prog" =>
        \A p \in 0..(strlen(code) - 1) :
            /\ At(code, p) = 3 =>
                /\ At(coeff, p) > 0
                /\ HasNestedMatch(code, p)
                /\ p + At(coeff, p) = NestedMatch(code, p)
                /\ At(code, p + At(coeff, p)) = 4
                /\ At(coeff, p + At(coeff, p)) = -At(coeff, p)
            /\ At(code, p) = 4 =>
                Cardinality({ q \in 0..(strlen(code) - 1) :
                                At(code, q) = 3 /\ q + At(coeff, q) = p }) = 1

C6_Witness ==
    /\ pc = "exec_prog"
    /\ \E p \in 0..(strlen(code) - 1) :
        /\ At(code, p) = 3 /\ At(code, p + 1) = 3
        /\ At(coeff, p) = 3 /\ At(coeff, p + 1) = 1

C8_WrapBlockAbort ==
    (pc \in {"moved", "error"} /\ policy \in {WRAP, BLOCK, ABORT}) =>
        \A L \in {Len(before.mem)} : \A r \in {before.ptr + shift} :
            /\ mem = before.mem
            /\ policy = WRAP =>
                /\ pc = "moved"
                /\ ptr = IF r >= L THEN r - L ELSE IF r < 0 THEN r + L ELSE r
            /\ policy = BLOCK =>
                /\ pc = "moved"
                /\ ptr = IF r >= L THEN L - 1 ELSE IF r < 0 THEN 0 ELSE r
            /\ policy = ABORT =>
                IF r >= L \/ r < 0
                THEN pc = "error" /\ err = << "ERROR_MEMORY", r, L - 1 >>
                ELSE pc = "moved" /\ ptr = r

C8_Witness ==
    /\ pc = "moved"
    /\ policy = WRAP
    /\ before.ptr + shift = Len(before.mem)
    /\ ptr = 0

\* C9: extend_memory with r = x + s outside [0, length) leaves a tape of
\* length r + 1 (r >= length) or length + (-r) (r < 0), the new cells 0, the
\* old cells with their values (moved up by -r when r < 0), and the pointer
\* on the cell of r; with r inside it changes the pointer alone.
C9_ExtendGrowsAndKeeps ==
    (pc \in {"moved", "error"} /\ policy = EXTEND) =>
        \A L \in {Len(before.mem)} : \A r \in {before.ptr + shift} :
            /\ pc = "moved"
            /\ IF r >= L
               THEN /\ Len(mem) = r + 1
                    /\ \A k \in 0..(L - 1) : At(mem, k) = At(before.mem, k)
                    /\ \A k \in L..r : At(mem, k) = 0
                    /\ ptr = r
               ELSE IF r < 0
               THEN /\ Len(mem) = L + (0 - r)
                    /\ \A k \in 0..((0 - r) - 1) : At(mem, k) = 0
                    /\ \A k \in 0..(L - 1) : At(mem, k + (0 - r)) = At(before.mem, k)
                    /\ ptr = 0
               ELSE mem = before.mem /\ ptr = r

C9_Witness ==
    /\ pc = "moved"
    /\ policy = EXTEND
    /\ before.ptr + shift < -1
    /\ Len(before.mem) >= 2
    /\ At(before.mem, 1) # 0
    /\ At(mem, 1 - (before.ptr + shift)) = At(before.mem, 1)

\* C10: for a command string of length n >= 1, every index optim_code writes
\* in coeff and in mov, each of n elements, is in [0, n).
C10_OptimWritesInBounds ==
    strlen(src) >= 1 =>
        /\ \A k \in coeff_w : InArray(coeff, k)
        /\ \A k \in mov_w : InArray(mov, k)

====
